---- MODULE Spec2Model ----
(***************************************************************************)
(* Entrance animation of ichigeki.info: the bootstrap (main.ts), the       *)
(* orchestrator (animation.ts), the lightning effects (lightning.ts) and   *)
(* the particle adapter (particles.ts), as one event-loop state machine.   *)
(*                                                                         *)
(* Time is in milliseconds.  `now` is the time elapsed since the entry     *)
(* point was invoked; the event loop runs one handler at a time, and the   *)
(* clock advances only when no handler is due.  Opacities are in per cent. *)
(***************************************************************************)
EXTENDS Integers, Sequences, FiniteSets, TLC

\* ------------------------------------------------------------------ bounds
\* Horizon of the clock (ms): covers the choreography and the ambient loop.
MaxTime == 17000
\* How often the host may change the reduced-motion preference.
MaxToggles == 1
\* How often the host calls stopAmbientLightning.
MaxStops == 2
\* Number of live particles of a populated simulation.
MaxParticles == 2
\* Significant bits of the floating-point numbers (an IEEE double has 53).
FloatBits == 8
\* How many particles the engine creates in all while the simulation is watched.
MaxBorn == 4

\* ------------------------------------------------------- program constants
\* lightning.ts: AMBIENT_MIN_INTERVAL / AMBIENT_MAX_INTERVAL
AMBIENT_MIN_INTERVAL == 8000
AMBIENT_MAX_INTERVAL == 12000
\* lightning.ts: flashLightning waits 50 ms after the flash is off
FLASH_SETTLE == 50
\* animation.ts: period of the recurring glitch interval
GLITCH_PERIOD == 5000
\* animation.ts: delay of the one delayed glitch scheduled by the settle phase
DELAYED_GLITCH == 2000
\* animation.ts: duration of the loading fade (0.3 s)
LOADING_FADE == 300
\* One display frame: requestAnimationFrame runs its callback at the next frame.
FRAME == 16
\* particles.ts: particleConfig.particles.number.value
PARTICLE_NUMBER == 50

\* Mutant: the durations of medium and full are exchanged.
INTENSITY_CONFIG_Swapped ==
  [ subtle |-> [duration |-> 50,  opacity |-> 30, blueTint |-> FALSE],
    medium |-> [duration |-> 150, opacity |-> 60, blueTint |-> FALSE],
    full   |-> [duration |-> 100, opacity |-> 90, blueTint |-> TRUE] ]

\* lightning.ts: INTENSITY_CONFIG (duration ms, opacity per cent, blueTint)
INTENSITY_CONFIG ==
  [ subtle |-> [duration |-> 50,  opacity |-> 30, blueTint |-> FALSE],
    medium |-> [duration |-> 100, opacity |-> 60, blueTint |-> FALSE],
    full   |-> [duration |-> 150, opacity |-> 90, blueTint |-> TRUE] ]

Intensities == {"subtle", "medium", "full"}

\* animation.ts: PHASE_DURATIONS in ms (only darkness and impact are used
\* by the timeline; anticipation and settle are documentation)
PHASE_DURATIONS ==
  [darkness |-> 800, anticipation |-> 1200, impact |-> 400, settle |-> 2000]

\* --------------------------------------------------------------- the DOM
\* The elements the code looks up (document.body always exists).
Elems ==
  {"loading", "content", "title", "tagline", "comingSoon", "lightning",
   "slashOverlay", "slashLine", "burst", "particles"}

\* animation.ts line 144: the elements the animation cannot run without
Required == {"content", "title", "tagline", "comingSoon", "lightning"}

TextEls == {"title", "tagline", "comingSoon"}

\* Elements whose inline opacity the orchestrator writes.
OpacityEls == {"loading", "content", "title", "tagline", "comingSoon", "slashOverlay"}

\* Elements whose class list the orchestrator writes.
ClassEls == {"content", "title", "tagline", "comingSoon", "slashLine", "burst", "body"}

\* An opacity strictly between 0 and 1: a transition in progress.
Mid == 50

VARIABLES
  present,        \* which elements the document holds
  reducedMotion,  \* matchMedia("(prefers-reduced-motion: reduce)").matches
  pc,             \* position of init / runEntranceAnimation: "idle" before the
                  \* call, "bypassReduced" / "bypassMissing" returned at line
                  \* 128 / 147, "initParticles" at the await, "running" while the
                  \* timeline plays, "resolved", or "caught" by init
  now,            \* clock, ms
  dom,            \* display, opacity, pose and classes of the elements
  overlay,        \* the lightning overlay: opacity and blue tint
  particles,      \* the particle handle: live particles and target number
  timers,         \* pending setTimeout / setInterval / animation-frame callbacks
  effects,        \* flashLightning / flickerLightning invocations in flight
  session,        \* closure state of startAmbientLightning
  cleanup,        \* module state of animation.ts: ambientCleanup, glitchInterval
  tl,             \* the GSAP timeline: last rendered time, completed
  log,            \* what has been issued, in order, with its time
  nextId,         \* next timer / invocation id
  toggles,        \* number of preference changes so far
  stops,          \* number of stopAmbientLightning calls so far
  stoppedInRun    \* stopAmbientLightning was called after the entry point was
                  \* invoked

vars ==
  <<present, reducedMotion, pc, now, dom, overlay, particles, timers, effects,
    session, cleanup, tl, log, nextId, toggles, stops, stoppedInRun>>

\* The part of the state the handlers write, as one record, so that the
\* handlers a single task runs can be composed.
World ==
  [dom |-> dom, overlay |-> overlay, particles |-> particles, timers |-> timers,
   effects |-> effects, session |-> session, cleanup |-> cleanup, log |-> log,
   nextId |-> nextId]

Commit(w) ==
  /\ dom' = w.dom
  /\ overlay' = w.overlay
  /\ particles' = w.particles
  /\ timers' = w.timers
  /\ effects' = w.effects
  /\ session' = w.session
  /\ cleanup' = w.cleanup
  /\ log' = w.log
  /\ nextId' = w.nextId

Has(e) == present[e]

Logged(w, ev, who, t0) ==
  [w EXCEPT !.log = Append(@, [ev |-> ev, who |-> who, t |-> now, t0 |-> t0])]

\* setTimeout / setInterval / requestAnimationFrame: a pending callback.
SetTimer(w, fn, el, cls, ms) ==
  [w EXCEPT !.timers = @ \cup {[id |-> w.nextId, fn |-> fn, at |-> now + ms,
                                 el |-> el, cls |-> cls]},
            !.nextId = @ + 1]

\* clearTimeout / clearInterval: drops the callback with that id, if pending.
ClearTimer(w, id) ==
  [w EXCEPT !.timers = {tm \in @ : tm.id # id}]

\* ------------------------------------------------- animation.ts: fallbacks
\* Mutant: the coming-soon marker is forgotten.
showContentImmediately_NoComingSoon(w) ==
  LET w1 == IF Has("loading") THEN [w EXCEPT !.dom.display = "none"] ELSE w
      w2 == IF Has("content")
              THEN [w1 EXCEPT !.dom.classes["content"] = @ \ {"hidden"},
                              !.dom.opacity["content"] = 100]
              ELSE w1
      w3 == IF Has("title")
              THEN [w2 EXCEPT !.dom.opacity["title"] = 100,
                              !.dom.pose["title"] = "neutral"]
              ELSE w2
  IN  IF Has("tagline")
        THEN [w3 EXCEPT !.dom.opacity["tagline"] = 100,
                        !.dom.pose["tagline"] = "neutral"]
        ELSE w3

\* animation.ts, showContentImmediately
showContentImmediately(w) ==
  LET w1 == IF Has("loading")
              THEN [w EXCEPT !.dom.display = "none"]
              ELSE w
      w2 == IF Has("content")
              THEN [w1 EXCEPT !.dom.classes["content"] = @ \ {"hidden"},
                              !.dom.opacity["content"] = 100]
              ELSE w1
      w3 == IF Has("title")
              THEN [w2 EXCEPT !.dom.opacity["title"] = 100,
                              !.dom.pose["title"] = "neutral"]
              ELSE w2
      w4 == IF Has("tagline")
              THEN [w3 EXCEPT !.dom.opacity["tagline"] = 100,
                              !.dom.pose["tagline"] = "neutral"]
              ELSE w3
  IN  IF Has("comingSoon")
        THEN [w4 EXCEPT !.dom.opacity["comingSoon"] = 100]
        ELSE w4

\* main.ts, showFallbackContent: the text elements are looked up inside
\* the content container.
showFallbackContent(w) ==
  LET w1 == IF Has("loading")
              THEN [w EXCEPT !.dom.display = "none"]
              ELSE w
      w2 == IF Has("content")
              THEN [w1 EXCEPT !.dom.classes["content"] = @ \ {"hidden"}]
              ELSE w1
      w3 == IF Has("content") /\ Has("title")
              THEN [w2 EXCEPT !.dom.opacity["title"] = 100,
                              !.dom.pose["title"] = "neutral"]
              ELSE w2
      w4 == IF Has("content") /\ Has("tagline")
              THEN [w3 EXCEPT !.dom.opacity["tagline"] = 100,
                              !.dom.pose["tagline"] = "neutral"]
              ELSE w3
  IN  IF Has("content") /\ Has("comingSoon")
        THEN [w4 EXCEPT !.dom.opacity["comingSoon"] = 100]
        ELSE w4

\* ------------------------------------------------ animation.ts: triggers
AddClass(w, el, cls) == [w EXCEPT !.dom.classes[el] = @ \cup {cls}]

RemoveClass(w, el, cls) == [w EXCEPT !.dom.classes[el] = @ \ {cls}]

\* animation.ts, triggerShake(document.body, duration)
triggerShake(w, duration) ==
  SetTimer(AddClass(w, "body", "shake"), "removeClass", "body", "shake", duration)

\* animation.ts, triggerSlash(slashLine): the promise it returns is not awaited
triggerSlash(w) ==
  SetTimer(AddClass(w, "slashLine", "animate"), "removeClass", "slashLine", "animate", 300)

\* animation.ts, triggerBurst(burstOverlay)
triggerBurst(w) ==
  SetTimer(AddClass(w, "burst", "burst-animate"), "removeClass", "burst",
           "burst-animate", 600)

\* animation.ts, triggerGlitch(title, duration)
triggerGlitch(w, duration) ==
  SetTimer(Logged(AddClass(w, "title", "glitch"), "glitch", "title", duration),
           "removeClass", "title", "glitch", duration)

\* ------------------------------------------------ particles.ts: the adapter
\* A JavaScript number is a binary floating-point value: the record
\* [m, e] stands for m * 2^e with FloatBits significant bits in m (or m = 0).
Pow2(k) == 2 ^ k

Abs(n) == IF n < 0 THEN 0 - n ELSE n

\* The floating-point value nearest to (n / d) * 2^e, ties to the even
\* mantissa: the rounding of every arithmetic operation on numbers.
FRound(n, d, e) ==
  IF n = 0
    THEN [m |-> 0, e |-> 0]
    ELSE LET Num(k) == Abs(n) * Pow2(IF k < 0 THEN 0 - k ELSE 0)
             Den(k) == d * Pow2(IF k > 0 THEN k ELSE 0)
             k == CHOOSE j \in (0 - FloatBits)..FloatBits :
                    /\ Pow2(FloatBits - 1) * Den(j) <= Num(j)
                    /\ Num(j) < Pow2(FloatBits) * Den(j)
             q == Num(k) \div Den(k)
             r == Num(k) % Den(k)
             up == 2 * r > Den(k) \/ (2 * r = Den(k) /\ q % 2 = 1)
             mant == IF up THEN q + 1 ELSE q
             sgn == IF n < 0 THEN 0 - 1 ELSE 1
         IN  IF mant = Pow2(FloatBits)
               THEN [m |-> sgn * Pow2(FloatBits - 1), e |-> e + k + 1]
               ELSE [m |-> sgn * mant, e |-> e + k]

\* The whole number n as a number of the program.
FloatOf(n) == FRound(n, 1, 0)

\* v * 3, v / 3, v * 1.5 and v / 1.5 (3 and 1.5 are exact)
FMul3(v) == FRound(v.m * 3, 1, v.e)

FDiv3(v) == FRound(v.m, 3, v.e)

FMul1_5(v) == FRound(v.m * 3, 2, v.e)

FDiv1_5(v) == FRound(v.m * 2, 3, v.e)

\* Velocity of the i-th particle the engine creates.  The engine draws it at
\* random (move.speed 0.5 to 1, direction top), so any value can occur: here
\* x runs upward from 0.5 and y downward from just above -1, the particles of
\* the initial population on every fourth value and the later ones between.
BaseVel(i) ==
  [x |-> [m |-> Pow2(FloatBits - 1) + i - 1, e |-> 0 - FloatBits],
   y |-> [m |-> 4 * i - Pow2(FloatBits) - (IF i > MaxParticles THEN 2 ELSE 0),
          e |-> 0 - FloatBits]]

\* `born` counts the particles the engine has created: they are numbered
\* 1, 2, ... as they are created, and vel maps the live ones to their velocity.
NewContainer(n) ==
  [handle |-> TRUE, vel |-> [i \in 1..n |-> BaseVel(i)],
   number |-> FloatOf(PARTICLE_NUMBER), born |-> n]

NoContainer == [handle |-> FALSE, vel |-> <<>>, number |-> FloatOf(0), born |-> 0]

\* particles.ts, accelerateParticles
accelerateParticles(w) ==
  IF ~w.particles.handle
    THEN w
    ELSE [w EXCEPT
           !.particles.vel =
              [i \in DOMAIN @ |-> [x |-> FMul3(@[i].x), y |-> FMul3(@[i].y)]],
           !.particles.number = FMul1_5(@)]

\* particles.ts, resetParticles
resetParticles(w) ==
  IF ~w.particles.handle
    THEN w
    ELSE [w EXCEPT
           !.particles.vel =
              [i \in DOMAIN @ |-> [x |-> FDiv3(@[i].x), y |-> FDiv3(@[i].y)]],
           !.particles.number = FDiv1_5(@)]

\* ------------------------------------------------ lightning.ts: the effects
\* lightning.ts, prefersReducedMotion: the signal is read at each call.
prefersReducedMotion == reducedMotion

SetOpacity(w, o) == [w EXCEPT !.overlay.opacity = o]

\* lightning.ts, applyBlueTint / removeBlueTint
applyBlueTint(w) == [w EXCEPT !.overlay.tint = TRUE]

removeBlueTint(w) == [w EXCEPT !.overlay.tint = FALSE]

NewEffect(w, kind, intensity, issuer, ms) ==
  [w EXCEPT !.effects = @ \cup {[id |-> w.nextId, kind |-> kind,
                                  intensity |-> intensity, pc |-> 1,
                                  at |-> now + ms, issuer |-> issuer, t0 |-> now]},
            !.nextId = @ + 1]

\* Mutant: the running flag is not checked.
scheduleNext_Unguarded(w, interval) ==
  [SetTimer(w, "ambientTimeout", "", "", interval) EXCEPT !.session.timeoutId = w.nextId]

\* lightning.ts, scheduleNext with the interval getRandomInterval drew
scheduleNext(w, interval) ==
  IF ~w.session.isRunning
    THEN w
    ELSE [SetTimer(w, "ambientTimeout", "", "", interval)
            EXCEPT !.session.timeoutId = w.nextId]

\* The continuation `.then(() => scheduleNext())` of an effect the ambient loop
\* started; an effect of the timeline has no continuation.
Resolved(w, issuer, interval) ==
  IF issuer = "ambient" THEN scheduleNext(w, interval) ELSE w

\* lightning.ts, flashLightning up to the first setTimeout
flashLightning(w, intensity, issuer, interval) ==
  LET config == INTENSITY_CONFIG[intensity]
      c == Logged(w, "call", intensity, now)
      t == IF config.blueTint THEN applyBlueTint(c) ELSE c
  IN  IF prefersReducedMotion
        THEN Resolved(Logged(c, "resolve", intensity, now), issuer, interval)
        ELSE NewEffect(SetOpacity(t, config.opacity), "flash", intensity, issuer,
                       config.duration)

\* lightning.ts, flashLightning: the two timeout callbacks.
\* pc 1: the flash is on; pc 2: it is off and the 50 ms settle runs.
FlashStep(w, e, interval) ==
  LET config == INTENSITY_CONFIG[e.intensity]
      rest == [w EXCEPT !.effects = @ \ {e}]
      off == SetOpacity(rest, 0)
      u == IF config.blueTint THEN removeBlueTint(off) ELSE off
  IN  IF e.pc = 1
        THEN [u EXCEPT !.effects = @ \cup {[e EXCEPT !.pc = 2, !.at = now + FLASH_SETTLE]}]
        ELSE Resolved(Logged(rest, "resolve", e.intensity, e.t0), e.issuer, interval)

\* lightning.ts, flickerLightning up to the first await
flickerLightning(w, issuer, interval) ==
  LET c == Logged(w, "call", "flicker", now)
  IN  IF prefersReducedMotion
        THEN Resolved(Logged(c, "resolve", "flicker", now), issuer, interval)
        ELSE NewEffect(SetOpacity(c, 50), "flicker", "flicker", issuer, 40)

\* Mutant: the gap after the second pulse is 40 ms instead of 80 ms.
FlickerStep_ShortGap(w, e, third, interval) ==
  LET rest == [w EXCEPT !.effects = @ \ {e}]
      Wait(x, p, ms) ==
        [x EXCEPT !.effects = @ \cup {[e EXCEPT !.pc = p, !.at = now + ms]}]
  IN  CASE e.pc = 1 -> Wait(SetOpacity(rest, 0), 2, 60)
        [] e.pc = 2 -> Wait(SetOpacity(rest, 70), 3, 50)
        [] e.pc = 3 -> Wait(SetOpacity(rest, 0), 4, 40)
        [] e.pc = 4 -> IF third THEN Wait(rest, 5, 40) ELSE Wait(rest, 7, 50)
        [] e.pc = 5 -> Wait(SetOpacity(rest, 30), 6, 30)
        [] e.pc = 6 -> Wait(SetOpacity(rest, 0), 7, 50)
        [] OTHER    -> Resolved(Logged(rest, "resolve", "flicker", e.t0), e.issuer,
                                interval)

\* lightning.ts, flickerLightning: the continuation after each await delay(..).
\* pc is the number of delays already awaited plus one; `third` is the outcome
\* of Math.random() > 0.5.
FlickerStep(w, e, third, interval) ==
  LET rest == [w EXCEPT !.effects = @ \ {e}]
      Wait(x, p, ms) ==
        [x EXCEPT !.effects = @ \cup {[e EXCEPT !.pc = p, !.at = now + ms]}]
  IN  CASE e.pc = 1 -> Wait(SetOpacity(rest, 0), 2, 60)
        [] e.pc = 2 -> Wait(SetOpacity(rest, 70), 3, 50)
        [] e.pc = 3 -> Wait(SetOpacity(rest, 0), 4, 80)
        [] e.pc = 4 -> IF third THEN Wait(rest, 5, 40) ELSE Wait(rest, 7, 50)
        [] e.pc = 5 -> Wait(SetOpacity(rest, 30), 6, 30)
        [] e.pc = 6 -> Wait(SetOpacity(rest, 0), 7, 50)
        [] OTHER    -> Resolved(Logged(rest, "resolve", "flicker", e.t0), e.issuer,
                                interval)

\* lightning.ts, startAmbientLightning: a new session, and its first scheduleNext
startAmbientLightning(w, interval) ==
  scheduleNext([w EXCEPT !.session = [created |-> @.created + 1, isRunning |-> TRUE,
                                      timeoutId |-> 0]],
               interval)

\* lightning.ts, the cleanup closure startAmbientLightning returns
AmbientCleanup(w) ==
  LET s == [w EXCEPT !.session.isRunning = FALSE]
      c == IF s.session.timeoutId # 0
             THEN [ClearTimer(s, s.session.timeoutId) EXCEPT !.session.timeoutId = 0]
             ELSE s
  IN  removeBlueTint(SetOpacity(c, 0))

\* lightning.ts, the timeout callback of scheduleNext
AmbientTimeout(w) ==
  IF ~w.session.isRunning THEN w ELSE SetTimer(w, "raf", "", "", FRAME)

\* lightning.ts, the animation-frame callback; useFlicker is the outcome of
\* Math.random() > 0.7
AmbientFrame(w, useFlicker, interval) ==
  IF ~w.session.isRunning
    THEN w
    ELSE IF useFlicker
           THEN flickerLightning(w, "ambient", interval)
           ELSE flashLightning(w, "subtle", "ambient", interval)

\* -------------------------------------------- animation.ts: the timeline
\* Mutant: the page shake is added with "+=0.1" instead of "<".
TimelineSpec_ShakeDelayed ==
  << [step |-> "darkness",   phase |-> "darkness",     pos |-> "end",  off |-> 0,
      dur |-> PHASE_DURATIONS.darkness],
     [step |-> "accelerate", phase |-> "anticipation", pos |-> "end",  off |-> 0,   dur |-> 0],
     [step |-> "flicker1",   phase |-> "anticipation", pos |-> "end",  off |-> 200, dur |-> 0],
     [step |-> "glitch150",  phase |-> "anticipation", pos |-> "end",  off |-> 300, dur |-> 0],
     [step |-> "flashMedium", phase |-> "anticipation", pos |-> "end", off |-> 200, dur |-> 0],
     [step |-> "glitch100",  phase |-> "anticipation", pos |-> "end",  off |-> 100, dur |-> 0],
     [step |-> "flicker2",   phase |-> "anticipation", pos |-> "end",  off |-> 200, dur |-> 0],
     [step |-> "flashFull",  phase |-> "impact",       pos |-> "end",  off |-> 0,   dur |-> 0],
     [step |-> "slash",      phase |-> "impact",       pos |-> "prev", off |-> 0,   dur |-> 0],
     [step |-> "burst",      phase |-> "impact",       pos |-> "prev", off |-> 0,   dur |-> 0],
     [step |-> "shake",      phase |-> "impact",       pos |-> "end",  off |-> 100, dur |-> 0],
     [step |-> "glitch200",  phase |-> "impact",       pos |-> "prev", off |-> 0,   dur |-> 0],
     [step |-> "titleReveal", phase |-> "impact",      pos |-> "prev", off |-> 0,
      dur |-> PHASE_DURATIONS.impact],
     [step |-> "reset",      phase |-> "settle",       pos |-> "end",  off |-> 0,   dur |-> 0],
     [step |-> "glowPulse",  phase |-> "settle",       pos |-> "end",  off |-> 0,   dur |-> 0],
     [step |-> "slash2",     phase |-> "settle",       pos |-> "end",  off |-> 300, dur |-> 0],
     [step |-> "taglineReveal", phase |-> "settle",    pos |-> "end",  off |-> 200, dur |-> 600],
     [step |-> "comingSoonReveal", phase |-> "settle", pos |-> "end",  off |-> 300, dur |-> 500],
     [step |-> "delayedGlitch", phase |-> "settle",    pos |-> "end",  off |-> 0,   dur |-> 0],
     [step |-> "ambient",    phase |-> "ambient",      pos |-> "end",  off |-> 0,   dur |-> 0] >>

\* The children of the timeline in the order runEntranceAnimation adds them
\* (animation.ts lines 204-360).  pos "end" with off: the position parameter
\* "+=off" (or none), counted from the end of the timeline so far; pos "prev":
\* the position parameter "<", the start of the child added before.  dur is the
\* child's duration; a callback has none.
TimelineSpec ==
  << [step |-> "darkness",   phase |-> "darkness",     pos |-> "end",  off |-> 0,
      dur |-> PHASE_DURATIONS.darkness],
     [step |-> "accelerate", phase |-> "anticipation", pos |-> "end",  off |-> 0,   dur |-> 0],
     [step |-> "flicker1",   phase |-> "anticipation", pos |-> "end",  off |-> 200, dur |-> 0],
     [step |-> "glitch150",  phase |-> "anticipation", pos |-> "end",  off |-> 300, dur |-> 0],
     [step |-> "flashMedium", phase |-> "anticipation", pos |-> "end", off |-> 200, dur |-> 0],
     [step |-> "glitch100",  phase |-> "anticipation", pos |-> "end",  off |-> 100, dur |-> 0],
     [step |-> "flicker2",   phase |-> "anticipation", pos |-> "end",  off |-> 200, dur |-> 0],
     [step |-> "flashFull",  phase |-> "impact",       pos |-> "end",  off |-> 0,   dur |-> 0],
     [step |-> "slash",      phase |-> "impact",       pos |-> "prev", off |-> 0,   dur |-> 0],
     [step |-> "burst",      phase |-> "impact",       pos |-> "prev", off |-> 0,   dur |-> 0],
     [step |-> "shake",      phase |-> "impact",       pos |-> "prev", off |-> 0,   dur |-> 0],
     [step |-> "glitch200",  phase |-> "impact",       pos |-> "prev", off |-> 0,   dur |-> 0],
     [step |-> "titleReveal", phase |-> "impact",      pos |-> "prev", off |-> 0,
      dur |-> PHASE_DURATIONS.impact],
     [step |-> "reset",      phase |-> "settle",       pos |-> "end",  off |-> 0,   dur |-> 0],
     [step |-> "glowPulse",  phase |-> "settle",       pos |-> "end",  off |-> 0,   dur |-> 0],
     [step |-> "slash2",     phase |-> "settle",       pos |-> "end",  off |-> 300, dur |-> 0],
     [step |-> "taglineReveal", phase |-> "settle",    pos |-> "end",  off |-> 200, dur |-> 600],
     [step |-> "comingSoonReveal", phase |-> "settle", pos |-> "end",  off |-> 300, dur |-> 500],
     [step |-> "delayedGlitch", phase |-> "settle",    pos |-> "end",  off |-> 0,   dur |-> 0],
     [step |-> "ambient",    phase |-> "ambient",      pos |-> "end",  off |-> 0,   dur |-> 0] >>

NSteps == Len(TimelineSpec)

Max(a, b) == IF a >= b THEN a ELSE b

\* Mutant: "+=off" read as the absolute position off.
Position_Absolute(c, prev, end) == IF c.pos = "prev" THEN prev ELSE c.off

\* The position parameter of a child: "<" is the start of the child added
\* before it, "+=off" (or none) is off after the end of the timeline so far.
Position(c, prev, end) == IF c.pos = "prev" THEN prev ELSE end + c.off

\* Where the timeline stands after its first i children were added: the start
\* of the i-th child and the duration of the timeline so far.
Placed[i \in 0..NSteps] ==
  IF i = 0
    THEN [start |-> 0, end |-> 0]
    ELSE LET c == TimelineSpec[i]
             before == Placed[i - 1]
             start == Position(c, before.start, before.end)
         IN  [start |-> start, end |-> Max(before.end, start + c.dur)]

\* The timeline as played: each child with its start time.
Timeline ==
  [i \in 1..NSteps |->
     [step |-> TimelineSpec[i].step, phase |-> TimelineSpec[i].phase,
      start |-> Placed[i].start, dur |-> TimelineSpec[i].dur]]

EndOf(c) == c.start + c.dur

\* Total duration: the timeline completes when its last child has ended.
TimelineDuration == Placed[NSteps].end

\* The playhead times at which the timeline has something to do.
TimelineTimes == {Timeline[i].start : i \in 1..NSteps} \cup {EndOf(Timeline[i]) : i \in 1..NSteps}

\* A tween of the timeline starts: the element leaves its initial state.
TweenStart(w, el) ==
  [w EXCEPT !.dom.opacity[el] = Mid, !.dom.pose[el] = "mid"]

\* A tween of the timeline ends: the end values are set and onComplete runs.
TweenEnd(w, el) ==
  [w EXCEPT !.dom.opacity[el] = 100, !.dom.pose[el] = "neutral"]

\* animation.ts lines 344-360: the ambient callback of the timeline.
StartAmbient(w, interval) ==
  LET s == startAmbientLightning(w, interval)
      g == SetTimer(s, "glitchInterval", "", "", GLITCH_PERIOD)
  IN  [g EXCEPT !.cleanup = [ambientCleanup |-> "set", glitchInterval |-> s.nextId]]

\* The callback or tween start of one child (animation.ts lines 204-360).
StartStep(w, step, interval) ==
  LET l == Logged(w, "step", step, now)
  IN  CASE step = "darkness"    -> l
        [] step = "accelerate"  -> accelerateParticles(l)
        [] step = "flicker1"    -> flickerLightning(l, "timeline", interval)
        [] step = "glitch150"   -> triggerGlitch(l, 150)
        [] step = "flashMedium" -> flashLightning(l, "medium", "timeline", interval)
        [] step = "glitch100"   -> triggerGlitch(l, 100)
        [] step = "flicker2"    -> flickerLightning(l, "timeline", interval)
        [] step = "flashFull"   -> flashLightning(l, "full", "timeline", interval)
        [] step = "slash"       -> IF Has("slashLine") THEN triggerSlash(l) ELSE l
        [] step = "burst"       -> IF Has("burst") THEN triggerBurst(l) ELSE l
        [] step = "shake"       -> triggerShake(l, 500)
        [] step = "glitch200"   -> triggerGlitch(l, 200)
        [] step = "titleReveal" -> TweenStart(l, "title")
        [] step = "reset"       -> resetParticles(l)
        [] step = "glowPulse"   -> AddClass(l, "title", "glow-pulse")
        [] step = "slash2"      ->
             IF Has("slashLine")
               THEN triggerSlash([l EXCEPT !.dom.pose["slashLine"] = "rotate15"])
               ELSE l
        [] step = "taglineReveal"    -> TweenStart(l, "tagline")
        [] step = "comingSoonReveal" -> TweenStart(l, "comingSoon")
        [] step = "delayedGlitch"    -> SetTimer(l, "delayedGlitch", "", "", DELAYED_GLITCH)
        [] OTHER                     -> StartAmbient(l, interval)

\* Mutant: the tagline's onComplete is missing.
EndStep_TaglineUnmarked(w, step) ==
  CASE step = "titleReveal"      -> TweenEnd(w, "title")
    [] step = "taglineReveal"    -> TweenEnd(w, "tagline")
    [] step = "comingSoonReveal" -> AddClass(TweenEnd(w, "comingSoon"), "comingSoon", "revealed")
    [] OTHER                     -> w

\* The end of one child that has a duration.
EndStep(w, step) ==
  CASE step = "titleReveal"      -> TweenEnd(w, "title")
    [] step = "taglineReveal"    -> AddClass(TweenEnd(w, "tagline"), "tagline", "revealed")
    [] step = "comingSoonReveal" -> AddClass(TweenEnd(w, "comingSoon"), "comingSoon", "revealed")
    [] OTHER                     -> w

\* One child at playhead time t.
RenderChild(w, c, t, interval) ==
  IF c.start = t
    THEN StartStep(w, c.step, interval)
    ELSE IF c.dur > 0 /\ EndOf(c) = t THEN EndStep(w, c.step) ELSE w

\* One tick of the timeline at playhead time t: the children in start order.
RECURSIVE Render(_, _, _, _)
Render(w, i, t, interval) ==
  IF i > NSteps
    THEN w
    ELSE Render(RenderChild(w, Timeline[i], t, interval), i + 1, t, interval)

\* animation.ts lines 160-198: what runEntranceAnimation does between the
\* particle initialization and the timeline.
Prepare(w) ==
  LET w1 == IF Has("loading")
              THEN SetTimer([w EXCEPT !.dom.opacity["loading"] = Mid],
                            "loadingFade", "", "", LOADING_FADE)
              ELSE w
      w2 == [w1 EXCEPT !.dom.classes["content"] = @ \ {"hidden"},
                       !.dom.opacity["content"] = 100,
                       !.dom.opacity["title"] = 0, !.dom.pose["title"] = "from",
                       !.dom.opacity["tagline"] = 0, !.dom.pose["tagline"] = "from",
                       !.dom.opacity["comingSoon"] = 0, !.dom.pose["comingSoon"] = "from"]
  IN  IF Has("slashOverlay")
        THEN [w2 EXCEPT !.dom.opacity["slashOverlay"] = 100]
        ELSE w2

\* Mutant: the stored cleanup forgets clearInterval.
WrappedCleanup_IntervalKept(w) == AmbientCleanup(w)

\* animation.ts lines 356-359: the cleanup stored in ambientCleanup
WrappedCleanup(w) == ClearTimer(AmbientCleanup(w), w.cleanup.glitchInterval)

\* animation.ts, stopAmbientLightning
stopAmbientLightning(w) ==
  IF w.cleanup.ambientCleanup = "null"
    THEN w
    ELSE [WrappedCleanup(w) EXCEPT !.cleanup.ambientCleanup = "null"]

\* ------------------------------------------------------------ the machine
\* Intervals getRandomInterval can draw: the smallest and (nearly) the largest.
AmbientIntervals == {AMBIENT_MIN_INTERVAL, AMBIENT_MAX_INTERVAL - 1}

\* The page before the entry point runs: loading indicator shown, content
\* container hidden by its class, text elements and overlays not yet visible.
InitialDom ==
  [display |-> "block",
   opacity |-> [e \in OpacityEls |-> IF e = "loading" THEN 100 ELSE 0],
   pose    |-> [e \in {"title", "tagline", "comingSoon", "slashLine"} |-> "css"],
   classes |-> [e \in ClassEls |-> IF e = "content" THEN {"hidden"} ELSE {}]]

\* The documents the entry point is run against: the complete page, the page
\* with any one required element missing, the page with every optional
\* element missing, and the empty page.
Documents ==
  {[e \in Elems |-> TRUE], [e \in Elems |-> e \in Required], [e \in Elems |-> FALSE]}
    \cup {[e \in Elems |-> e # m] : m \in Required}

Init ==
  /\ present \in Documents
  /\ reducedMotion \in BOOLEAN
  /\ pc = "idle"
  /\ now = 0
  /\ dom = InitialDom
  /\ overlay = [opacity |-> 0, tint |-> FALSE]
  /\ particles = NoContainer
  /\ timers = {}
  /\ effects = {}
  /\ session = [created |-> 0, isRunning |-> FALSE, timeoutId |-> 0]
  /\ cleanup = [ambientCleanup |-> "null", glitchInterval |-> 0]
  /\ tl = [last |-> 0 - 1, done |-> FALSE]
  /\ log = <<>>
  /\ nextId = 1
  /\ toggles = 0
  /\ stops = 0
  /\ stoppedInRun = FALSE

Env == <<present, reducedMotion, now, toggles, stops, stoppedInRun>>

\* Mutant: the lightning overlay is not checked.
MissingRequired_NoOverlay == \E e \in Required \ {"lightning"} : ~Has(e)

\* animation.ts line 144
MissingRequired == \E e \in Required : ~Has(e)

\* main.ts line 226 calling animation.ts, runEntranceAnimation, up to its first
\* await (or, without a particle container, up to the returned promise).
RunEntranceAnimation ==
  /\ pc = "idle"
  /\ IF prefersReducedMotion
       THEN /\ Commit(showContentImmediately(World))
            /\ pc' = "bypassReduced"
       ELSE IF MissingRequired
              THEN /\ Commit(showContentImmediately(World))
                   /\ pc' = "bypassMissing"
              ELSE IF Has("particles")
                     THEN /\ Commit(World)
                          /\ pc' = "initParticles"
                     ELSE /\ Commit(Prepare(World))
                          /\ pc' = "running"
  /\ UNCHANGED <<Env, tl>>

\* main.ts lines 225-231: runEntranceAnimation raises before it did anything
\* (the host has no matchMedia), and init's catch shows the fallback content.
RunEntranceAnimationThrows ==
  /\ pc = "idle"
  /\ Commit(showFallbackContent(World))
  /\ pc' = "caught"
  /\ UNCHANGED <<Env, tl>>

\* animation.ts line 154: initParticles resolves with a container that holds
\* no particle yet, or MaxParticles of them.
InitParticlesResolves ==
  /\ pc = "initParticles"
  /\ \E n \in {0, MaxParticles} :
       Commit(Prepare([World EXCEPT !.particles = NewContainer(n)]))
  /\ pc' = "running"
  /\ UNCHANGED <<Env, tl>>

\* Mutant: the error of initParticles is not caught and reaches init's catch.
InitParticlesRejects_Propagates ==
  /\ pc = "initParticles"
  /\ Commit(showFallbackContent(World))
  /\ pc' = "caught"
  /\ UNCHANGED <<Env, tl>>

\* animation.ts lines 155-157: initParticles rejects; the error is logged.
InitParticlesRejects ==
  /\ pc = "initParticles"
  /\ Commit(Prepare([World EXCEPT !.particles = NoContainer]))
  /\ pc' = "running"
  /\ UNCHANGED <<Env, tl>>

\* One tick of the GSAP timeline: every child due at the playhead, then, at
\* the end of the timeline, onComplete, which resolves the returned promise
\* (animation.ts lines 363-367).
TimelineTick ==
  /\ pc = "running"
  /\ now \in TimelineTimes
  /\ tl.last < now
  /\ \E interval \in AmbientIntervals : Commit(Render(World, 1, now, interval))
  /\ tl' = [last |-> now, done |-> now = TimelineDuration]
  /\ pc' = IF now = TimelineDuration THEN "resolved" ELSE pc
  /\ UNCHANGED Env

Drop(w, tm) == [w EXCEPT !.timers = @ \ {tm}]

\* animation.ts lines 162-168: the loading fade completes.
LoadingFadeCompletes ==
  /\ \E tm \in timers :
       /\ tm.fn = "loadingFade" /\ tm.at = now
       /\ Commit([Drop(World, tm) EXCEPT !.dom.opacity["loading"] = 0,
                                         !.dom.display = "none"])
  /\ UNCHANGED <<Env, pc, tl>>

\* The timeout callbacks of triggerShake, triggerSlash, triggerBurst, triggerGlitch.
RemoveClassFires ==
  /\ \E tm \in timers :
       /\ tm.fn = "removeClass" /\ tm.at = now
       /\ Commit(RemoveClass(Drop(World, tm), tm.el, tm.cls))
  /\ UNCHANGED <<Env, pc, tl>>

\* animation.ts line 337: the delayed glitch.
DelayedGlitchFires ==
  /\ \E tm \in timers :
       /\ tm.fn = "delayedGlitch" /\ tm.at = now
       /\ Commit(triggerGlitch(Drop(World, tm), 100))
  /\ UNCHANGED <<Env, pc, tl>>

\* animation.ts lines 348-352: one tick of the glitch interval; `hit` is the
\* outcome of Math.random() > 0.7.  The interval stays armed.
GlitchIntervalTick ==
  /\ \E tm \in timers, hit \in BOOLEAN :
       /\ tm.fn = "glitchInterval" /\ tm.at = now
       /\ LET w == [World EXCEPT !.timers = (@ \ {tm}) \cup
                                            {[tm EXCEPT !.at = now + GLITCH_PERIOD]}]
          IN  Commit(IF hit THEN triggerGlitch(w, 80) ELSE w)
  /\ UNCHANGED <<Env, pc, tl>>

\* lightning.ts lines 166-186: the timeout of scheduleNext fires.
AmbientTimeoutFires ==
  /\ \E tm \in timers :
       /\ tm.fn = "ambientTimeout" /\ tm.at = now
       /\ Commit(AmbientTimeout(Drop(World, tm)))
  /\ UNCHANGED <<Env, pc, tl>>

\* lightning.ts lines 170-185: the animation-frame callback runs.
AnimationFrameFires ==
  /\ \E tm \in timers, useFlicker \in BOOLEAN, interval \in AmbientIntervals :
       /\ tm.fn = "raf" /\ tm.at = now
       /\ Commit(AmbientFrame(Drop(World, tm), useFlicker, interval))
  /\ UNCHANGED <<Env, pc, tl>>

\* lightning.ts lines 82-92: a timeout of flashLightning fires.
FlashTimeout ==
  /\ \E e \in effects, interval \in AmbientIntervals :
       /\ e.kind = "flash" /\ e.at = now
       /\ Commit(FlashStep(World, e, interval))
  /\ UNCHANGED <<Env, pc, tl>>

\* lightning.ts lines 112-131: flickerLightning resumes after a delay.
FlickerResumes ==
  /\ \E e \in effects, third \in BOOLEAN, interval \in AmbientIntervals :
       /\ e.kind = "flicker" /\ e.at = now
       /\ Commit(FlickerStep(World, e, third, interval))
  /\ UNCHANGED <<Env, pc, tl>>

\* The host calls stopAmbientLightning (animation.ts lines 374-379).
StopAmbientLightning ==
  /\ stops < MaxStops
  /\ stops' = stops + 1
  /\ stoppedInRun' = (stoppedInRun \/ pc # "idle")
  /\ Commit(stopAmbientLightning(World))
  /\ UNCHANGED <<present, reducedMotion, now, toggles, pc, tl>>

\* The user changes the reduced-motion preference of the host.
PreferenceChanges ==
  /\ toggles < MaxToggles
  /\ toggles' = toggles + 1
  /\ reducedMotion' = ~reducedMotion
  /\ Commit(World)
  /\ UNCHANGED <<present, now, stops, stoppedInRun, pc, tl>>

\* The times at which something is pending.
DueTimes ==
  {tm.at : tm \in timers} \cup {e.at : e \in effects}
    \cup (IF pc = "running" THEN {t \in TimelineTimes : t > tl.last} ELSE {})

NextDue == CHOOSE t \in DueTimes : \A u \in DueTimes : t <= u

\* Nothing is due: the clock moves to the next pending callback.
Advance ==
  /\ DueTimes # {}
  /\ NextDue > now
  /\ NextDue <= MaxTime
  /\ now' = NextDue
  /\ Commit(World)
  /\ UNCHANGED <<present, reducedMotion, toggles, stops, stoppedInRun, pc, tl>>

Next ==
  \/ RunEntranceAnimation
  \/ RunEntranceAnimationThrows
  \/ InitParticlesResolves
  \/ InitParticlesRejects
  \/ TimelineTick
  \/ LoadingFadeCompletes
  \/ RemoveClassFires
  \/ DelayedGlitchFires
  \/ GlitchIntervalTick
  \/ AmbientTimeoutFires
  \/ AnimationFrameFires
  \/ FlashTimeout
  \/ FlickerResumes
  \/ StopAmbientLightning
  \/ PreferenceChanges
  \/ Advance

Spec == Init /\ [][Next]_vars

\* ------------------------------------------- the particle simulation alone
\* The playhead positions of the two timeline callbacks that call the adapter.
AccelerateAt == Timeline[CHOOSE i \in 1..NSteps : Timeline[i].step = "accelerate"].start

ResetAt == Timeline[CHOOSE i \in 1..NSteps : Timeline[i].step = "reset"].start

Issued(step) == \E k \in 1..Len(log) : log[k].ev = "step" /\ log[k].who = step

\* The run from the anticipation phase on, reduced to what touches the
\* particle handle: initParticles has settled with no container or with a
\* container of up to MaxParticles particles.
ParticleInit ==
  /\ present = [e \in Elems |-> TRUE]
  /\ reducedMotion = FALSE
  /\ pc = "running"
  /\ now = AccelerateAt
  /\ dom = InitialDom
  /\ overlay = [opacity |-> 0, tint |-> FALSE]
  /\ particles \in {NoContainer} \cup {NewContainer(n) : n \in 0..MaxParticles}
  /\ timers = {}
  /\ effects = {}
  /\ session = [created |-> 0, isRunning |-> FALSE, timeoutId |-> 0]
  /\ cleanup = [ambientCleanup |-> "null", glitchInterval |-> 0]
  /\ tl = [last |-> 0, done |-> FALSE]
  /\ log = <<>>
  /\ nextId = 1
  /\ toggles = 0
  /\ stops = 0
  /\ stoppedInRun = FALSE

\* animation.ts lines 210-212: the timeline callback that accelerates.
TimelineAccelerates ==
  /\ now = AccelerateAt /\ ~Issued("accelerate")
  /\ Commit(StartStep(World, "accelerate", AMBIENT_MIN_INTERVAL))
  /\ UNCHANGED <<Env, pc, tl>>

\* The playhead moves on from the anticipation phase to the settle phase.
PlayheadReachesSettle ==
  /\ now = AccelerateAt /\ Issued("accelerate")
  /\ now' = ResetAt
  /\ Commit(World)
  /\ UNCHANGED <<present, reducedMotion, toggles, stops, stoppedInRun, pc, tl>>

\* animation.ts lines 287-290: the timeline callback that resets.
TimelineResets ==
  /\ now = ResetAt /\ ~Issued("reset")
  /\ Commit(StartStep(World, "reset", AMBIENT_MIN_INTERVAL))
  /\ UNCHANGED <<Env, pc, tl>>

\* The engine creates a particle (particles.ts, particleConfig: particles
\* live 3 to 6 s and are replaced; number.value is the target to fill).
EngineAddsParticle ==
  /\ particles.handle /\ particles.born < MaxBorn
  /\ LET id == particles.born + 1
     IN  particles' =
           [particles EXCEPT
              !.born = id,
              !.vel = [i \in DOMAIN particles.vel \cup {id} |->
                         IF i = id THEN BaseVel(id) ELSE particles.vel[i]]]
  /\ UNCHANGED <<present, reducedMotion, pc, now, dom, overlay, timers, effects,
                 session, cleanup, tl, log, nextId, toggles, stops, stoppedInRun>>

\* The engine destroys a particle (its life is over or its opacity animation
\* reached the minimum).
EngineRemovesParticle ==
  /\ \E id \in DOMAIN particles.vel :
       particles' =
         [particles EXCEPT
            !.vel = [i \in DOMAIN particles.vel \ {id} |-> particles.vel[i]]]
  /\ UNCHANGED <<present, reducedMotion, pc, now, dom, overlay, timers, effects,
                 session, cleanup, tl, log, nextId, toggles, stops, stoppedInRun>>

ParticleNext ==
  \/ TimelineAccelerates
  \/ PlayheadReachesSettle
  \/ TimelineResets
  \/ EngineAddsParticle
  \/ EngineRemovesParticle

ParticleSpec == ParticleInit /\ [][ParticleNext]_vars

\* ---------------------------------------------------------------- claims
\* Every present text element is at opacity 1 and the loading indicator, if
\* there is one, is hidden.
Revealed ==
  /\ \A e \in TextEls : Has(e) => dom.opacity[e] = 100
  /\ Has("loading") => dom.display = "none"

\* Nothing of the animation has happened: no particle handle, no effect or
\* step issued, no timer, no timeline, no ambient session.
Untouched ==
  /\ particles = NoContainer
  /\ log = <<>>
  /\ effects = {}
  /\ timers = {}
  /\ overlay = [opacity |-> 0, tint |-> FALSE]
  /\ tl.last < 0
  /\ session.created = 0
  /\ cleanup.ambientCleanup = "null"

\* The page after "reveal everything immediately".
BypassDom ==
  [display |-> IF present["loading"] THEN "none" ELSE "block",
   opacity |-> [e \in OpacityEls |->
                  IF e \in {"content", "title", "tagline", "comingSoon"} /\ present[e]
                    THEN 100 ELSE IF e = "loading" THEN 100 ELSE 0],
   pose    |-> [e \in {"title", "tagline", "comingSoon", "slashLine"} |->
                  IF e \in {"title", "tagline"} /\ present[e] THEN "neutral" ELSE "css"],
   classes |-> [e \in ClassEls |->
                  IF e = "content" /\ ~present[e] THEN {"hidden"} ELSE {}]]

\* C1: a run invoked while the reduced-motion signal is active returns at once
\* through the bypass; then and ever after no particle state, flash, flicker,
\* timeline or ambient session exists, the text elements are at opacity 1 and
\* the loading indicator is hidden.
C1_ReducedMotionBypass ==
  [][ /\ (pc = "idle" /\ reducedMotion /\ pc' # "idle")
           => pc' \in {"bypassReduced", "caught"}
      /\ pc' = "bypassReduced" => (Untouched /\ Revealed /\ dom = BypassDom)' ]_vars

C1_Witness ==
  /\ pc = "bypassReduced"
  /\ \A e \in Elems : present[e]
  /\ dom.display = "none"
  /\ \A e \in TextEls : dom.opacity[e] = 100

\* The timeline steps issued so far, in the order of their issue.
StepLog == SelectSeq(log, LAMBDA r : r.ev = "step")

PhaseOrder == <<"darkness", "anticipation", "impact", "settle", "ambient">>

PhaseIdx == [p \in {PhaseOrder[i] : i \in 1..Len(PhaseOrder)} |->
               CHOOSE i \in 1..Len(PhaseOrder) : PhaseOrder[i] = p]

StepNames == {TimelineSpec[i].step : i \in 1..NSteps}

\* The phase (as its index in PhaseOrder) each step belongs to.
PhaseOfStep ==
  [s \in StepNames |->
     PhaseIdx[TimelineSpec[CHOOSE i \in 1..NSteps : TimelineSpec[i].step = s].phase]]

\* The steps of the phases before phase p.
EarlierSteps == [p \in 1..Len(PhaseOrder) |-> {s \in StepNames : PhaseOfStep[s] < p}]

\* C2: the phases begin in the order darkness, anticipation, impact, settle,
\* ambient: no step is issued twice, no step of a phase is issued after a step
\* of a later phase, every step of the earlier phases has been issued when a
\* phase is entered, a resolved run has entered all five, and a bypassed run
\* has entered none.
C2_PhasesInOrder ==
  LET sl == StepLog
      n == Len(sl)
      ph(k) == PhaseOfStep[sl[k].who]
      before(k) == {sl[m].who : m \in 1..(k - 1)}
  IN  /\ Cardinality({sl[k].who : k \in 1..n}) = n
      /\ \A k \in 2..n : ph(k - 1) <= ph(k)
      /\ \A k \in 1..n :
           (k = 1 \/ ph(k - 1) < ph(k)) => EarlierSteps[ph(k)] \subseteq before(k)
      /\ n > 0 => ph(1) = 1
      /\ pc = "resolved" => {ph(k) : k \in 1..n} = 1..Len(PhaseOrder)
      /\ pc \in {"bypassReduced", "bypassMissing", "caught"} => n = 0

C2_Witness ==
  /\ pc = "resolved"
  /\ \E k \in 1..Len(StepLog) : StepLog[k].who = "ambient"

\* C3: with a required element missing, the run returns through the bypass: no
\* particle initialization, no timeline step or effect, no ambient session,
\* and the page is in the state of the reduced-motion path.
C3_MissingRequiredBypass ==
  (/\ pc \notin {"idle", "caught"}
   /\ \E e \in {"content", "title", "tagline", "comingSoon", "lightning"} : ~present[e])
    => /\ pc \in {"bypassReduced", "bypassMissing"}
       /\ Untouched
       /\ Revealed
       /\ dom = BypassDom

C3_Witness ==
  /\ pc = "bypassMissing"
  /\ ~present["title"]
  /\ present["tagline"] /\ dom.opacity["tagline"] = 100
  /\ present["loading"] /\ dom.display = "none"

\* The callbacks of the event loop and the settling of initParticles: what
\* the browser runs once it is due.  The calls of the host (the preference
\* change, stopAmbientLightning) are not among them.
Progress ==
  \/ RunEntranceAnimation
  \/ InitParticlesResolves
  \/ InitParticlesRejects
  \/ TimelineTick
  \/ LoadingFadeCompletes
  \/ RemoveClassFires
  \/ DelayedGlitchFires
  \/ GlitchIntervalTick
  \/ AmbientTimeoutFires
  \/ AnimationFrameFires
  \/ FlashTimeout
  \/ FlickerResumes
  \/ Advance

\* The event loop does not stall: a callback that is due runs, and time passes.
LiveSpec == Spec /\ WF_vars(Progress)

\* C4: a missing optional element or a failed particle initialization never
\* aborts the run: the error of initParticles does not reach init's catch, the
\* effects of an absent element are skipped, an absent handle is left alone,
\* and the run goes on to resolve with every step issued and the ambient
\* session started.
C4_OptionalFailuresDegrade ==
  /\ [][pc' = "caught" => pc \in {"idle", "caught"}]_vars
  /\ [](~present["slashLine"] =>
          /\ dom.classes["slashLine"] = {} /\ dom.pose["slashLine"] = "css"
          /\ \A tm \in timers : tm.el # "slashLine")
  /\ [](~present["burst"] =>
          dom.classes["burst"] = {} /\ \A tm \in timers : tm.el # "burst")
  /\ [](~present["slashOverlay"] => dom.opacity["slashOverlay"] = 0)
  /\ [](~particles.handle => particles = NoContainer)
  /\ [](pc = "resolved" =>
          /\ {StepLog[k].who : k \in 1..Len(StepLog)} = StepNames
          /\ session.created = 1)
  /\ (pc \in {"initParticles", "running"}) ~> (pc = "resolved")

C4_Witness ==
  /\ pc = "resolved"
  /\ present["particles"] /\ ~particles.handle
  /\ session.isRunning

\* C5: every call of stopAmbientLightning leaves the overlay at opacity 0 and
\* untinted, and a call that finds no cleanup stored changes nothing.
C5_StopAlwaysResetsOverlay ==
  [][stops' = stops + 1 =>
       /\ overlay'.opacity = 0 /\ ~overlay'.tint
       /\ cleanup.ambientCleanup = "null" =>
            UNCHANGED <<dom, overlay, particles, timers, effects, session, cleanup>>]_vars

CallCount(l) == Len(SelectSeq(l, LAMBDA r : r.ev = "call"))

\* C6: when the stored cleanup runs, the session's running flag is false, its
\* timeout is cancelled and the overlay is at opacity 0 and untinted; from then
\* on the session starts no flash or flicker and arms no timeout or animation
\* frame, whatever was pending or in flight at the stop.
C6_CleanupStopsSession ==
  [][ /\ (stops' = stops + 1 /\ cleanup.ambientCleanup = "set") =>
           /\ ~session'.isRunning
           /\ session'.timeoutId = 0
           /\ \A tm \in timers' : tm.fn # "ambientTimeout"
           /\ overlay' = [opacity |-> 0, tint |-> FALSE]
      /\ (session.created > 0 /\ ~session.isRunning) =>
           /\ ~session'.isRunning
           /\ CallCount(log') = CallCount(log)
           /\ \A e \in effects' : \E f \in effects : f.id = e.id
           /\ \A tm \in timers' : tm.fn \in {"ambientTimeout", "raf"} => tm \in timers
           /\ \A tm \in timers' : tm.fn # "ambientTimeout" ]_vars

\* The session is stopped while one of its effects is in flight.
C6_Witness ==
  /\ session.created = 1 /\ ~session.isRunning
  /\ \E e \in effects : e.issuer = "ambient"

\* C7: once the session is stopped, the overlay stays at opacity 0, untinted.
C7_OverlayStaysReset ==
  (session.created > 0 /\ ~session.isRunning) => overlay = [opacity |-> 0, tint |-> FALSE]

\* C8: the promise resolves once, in the tick that issues the last steps: the
\* title reveal has finished, tagline and coming-soon marker are marked
\* revealed (the marker never before the tagline, each only once its own
\* transition is complete), exactly one ambient session exists and runs, and
\* the delayed glitch and the first ambient timeout are still pending.
C8_ResolvesAfterChoreography ==
  [][ /\ (pc # "resolved" /\ pc' = "resolved") =>
           /\ pc = "running"
           /\ {StepLog'[k].who : k \in 1..Len(StepLog')} = StepNames
           /\ dom'.opacity["title"] = 100 /\ dom'.pose["title"] = "neutral"
           /\ "revealed" \in dom'.classes["tagline"]
           /\ "revealed" \in dom'.classes["comingSoon"]
           /\ session'.created = 1 /\ session'.isRunning
           /\ cleanup'.ambientCleanup = "set"
           /\ \E tm \in timers' : tm.fn = "delayedGlitch" /\ tm.at = now + 2000
           /\ \E tm \in timers' : tm.fn = "ambientTimeout" /\ tm.at >= now + 8000
           /\ \A e \in effects' : e.issuer # "ambient"
      /\ pc = "resolved" => pc' = "resolved" /\ tl' = tl
      /\ \A e \in {"tagline", "comingSoon"} :
           "revealed" \in dom'.classes[e] => dom'.opacity[e] = 100
      /\ "revealed" \in dom'.classes["comingSoon"] => "revealed" \in dom'.classes["tagline"]
      /\ session'.created <= 1 ]_vars

C8_Witness ==
  /\ pc = "resolved" /\ now = 4100
  /\ session.isRunning
  /\ \E tm \in timers : tm.fn = "delayedGlitch"
  /\ "revealed" \in dom.classes["comingSoon"]

\* C9: once init is through with the entry point (returned, resolved or
\* caught), the loading indicator is hidden and the text elements are at
\* opacity 1.
C9_EveryRunEndsRevealed ==
  pc \in {"bypassReduced", "bypassMissing", "resolved", "caught"} => Revealed

FlashPeak == [subtle |-> 30, medium |-> 60, full |-> 90]

FlashTinted == [subtle |-> FALSE, medium |-> FALSE, full |-> TRUE]

FlashOffAfter == [subtle |-> 50, medium |-> 100, full |-> 150]

FlashResolvesAfter == [subtle |-> 100, medium |-> 150, full |-> 200]

\* C10: a flash called with motion not reduced sets the overlay to the peak of
\* its level (tinting it only for the full level), sets it to 0 and untinted
\* exactly `duration` ms later and resolves 50 ms after that, 100, 150 or 200
\* ms after the call, with the overlay at 0 and untinted; called with motion
\* reduced it resolves in the call and leaves the overlay as it was.
C10_FlashTiming ==
  [][ /\ \A e \in effects' :
           (e.kind = "flash" /\ e.pc = 1 /\ e \notin effects) =>
             /\ ~reducedMotion
             /\ e.t0 = now
             /\ overlay'.opacity = FlashPeak[e.intensity]
             /\ overlay'.tint = (FlashTinted[e.intensity] \/ overlay.tint)
      /\ \A e \in effects :
           (e.kind = "flash" /\ e.pc = 1 /\ e \notin effects') =>
             /\ \E f \in effects' : f.id = e.id /\ f.pc = 2
             /\ now = e.t0 + FlashOffAfter[e.intensity]
             /\ overlay'.opacity = 0 /\ ~overlay'.tint
      /\ \A e \in effects :
           (e.kind = "flash" /\ e.pc = 2 /\ e \notin effects') =>
             /\ now = e.t0 + FlashResolvesAfter[e.intensity]
             /\ overlay'.opacity = 0 /\ ~overlay'.tint
             /\ \E k \in (Len(log) + 1)..Len(log') :
                  log'[k] = [ev |-> "resolve", who |-> e.intensity, t |-> now, t0 |-> e.t0]
      /\ \A k \in (Len(log) + 1)..Len(log') :
           (log'[k].ev = "call" /\ log'[k].who \in Intensities) =>
             IF reducedMotion
               THEN /\ overlay' = overlay
                    /\ effects' = effects
                    /\ log'[k + 1] = [ev |-> "resolve", who |-> log'[k].who,
                                      t |-> now, t0 |-> now]
               ELSE \E e \in effects' \ effects :
                      e.kind = "flash" /\ e.intensity = log'[k].who /\ e.t0 = now ]_vars

\* A flash of each level has resolved, duration + 50 ms after its call.
C10_Witness ==
  \A i \in Intensities :
    \E k \in 1..Len(log) :
      /\ log[k].ev = "resolve" /\ log[k].who = i
      /\ log[k].t = log[k].t0 + FlashResolvesAfter[i]

\* The flicker invocations that resolve in this step.
FlickerResolving == {e \in effects : e.kind = "flicker" /\ \A f \in effects' : f.id # e.id}

\* C11: a flicker called with motion not reduced resolves no earlier than
\* 280 ms and no later than 350 ms after its call, whichever way the random
\* third-pulse branch goes, and the overlay is at opacity 0 when it resolves;
\* every such call is in flight until then.
C11_FlickerTiming ==
  [][ /\ \A e \in FlickerResolving :
           /\ now >= e.t0 + 40 + 60 + 50 + 80 + 50
           /\ now <= e.t0 + 40 + 60 + 50 + 80 + 50 + 40 + 30
           /\ overlay.opacity = 0 /\ overlay'.opacity = 0
           /\ \E k \in (Len(log) + 1)..Len(log') :
                log'[k] = [ev |-> "resolve", who |-> "flicker", t |-> now, t0 |-> e.t0]
      /\ \A k \in (Len(log) + 1)..Len(log') :
           (log'[k].ev = "call" /\ log'[k].who = "flicker" /\ ~reducedMotion) =>
             \E e \in effects' \ effects : e.kind = "flicker" /\ e.t0 = now
      /\ \A k \in (Len(log) + 1)..Len(log') :
           (log'[k].ev = "resolve" /\ log'[k].who = "flicker" /\ log'[k].t0 # now) =>
             \E e \in FlickerResolving : e.t0 = log'[k].t0 ]_vars

\* Both outcomes of the third-pulse branch have resolved in one run.
C11_Witness ==
  /\ \E k \in 1..Len(log) :
       log[k].ev = "resolve" /\ log[k].who = "flicker" /\ log[k].t = log[k].t0 + 280
  /\ \E k \in 1..Len(log) :
       log[k].ev = "resolve" /\ log[k].who = "flicker" /\ log[k].t = log[k].t0 + 350
  /\ overlay.opacity = 0

\* C12: accelerateParticles followed by resetParticles on the same handle and
\* the same live particles gives back every velocity component and the target
\* number, whatever container the run holds (none, empty or populated); with
\* no handle each call alone changes nothing.
C12_AccelerateResetRoundTrip ==
  /\ resetParticles(accelerateParticles(World)).particles = particles
  /\ ~particles.handle =>
       accelerateParticles(World) = World /\ resetParticles(World) = World

\* C13: the reduced-motion signal is read at the invocation only.  A run that
\* got past the bypass was invoked with the signal off, so the run in which the
\* signal never changes starts every flash and flicker it calls; whatever the
\* signal is later, each call therefore lights the overlay and is in flight
\* afterwards, and a change of the signal alters nothing else.
C13_SignalReadAtInvocationOnly ==
  [][ /\ \A k \in (Len(log) + 1)..Len(log') :
           log'[k].ev = "call" =>
             /\ \E e \in effects' \ effects : e.t0 = now /\ e.intensity = log'[k].who
             /\ overlay'.opacity > 0
      /\ reducedMotion' # reducedMotion =>
           UNCHANGED <<dom, overlay, particles, timers, effects, session, cleanup,
                       tl, log, pc>> ]_vars

\* C14: the overlay has one writer at a time: of any two flash or flicker
\* invocations of a run one has resolved before the other is called, so at
\* most one invocation is in flight at any time.
C14_OneOverlayWriter ==
  \A e, f \in effects : e.id = f.id

\* C15: once stopAmbientLightning has been called during a run, at whatever
\* point of the choreography, no timeout of the ambient loop and no recurring
\* glitch timer is pending, then or at any later time.
C15_StopLeaksNoTimer ==
  stoppedInRun => \A tm \in timers : tm.fn \notin {"ambientTimeout", "glitchInterval"}

\* The anticipation steps in their order, followed by the impact flash.
AnticipationOrder ==
  <<"accelerate", "flicker1", "glitch150", "flashMedium", "glitch100", "flicker2",
    "flashFull">>

\* C16: the anticipation steps are issued in the order accelerate, flicker,
\* glitch, medium flash, glitch, final flicker, each strictly later than the
\* one before, and the full flash of the impact phase is issued strictly later
\* than the final flicker.
C16_AnticipationStrictlyOrdered ==
  LET sl == StepLog
      At(s) == {sl[k].t : k \in {j \in 1..Len(sl) : sl[j].who = s}}
  IN  \A i \in 2..Len(AnticipationOrder) :
        \A t \in At(AnticipationOrder[i]) :
          /\ At(AnticipationOrder[i - 1]) # {}
          /\ \A u \in At(AnticipationOrder[i - 1]) : u < t

\* C17: each bounded phase lasts its nominal duration, from its first step to
\* the first step of the next phase: darkness 0.8 s, anticipation 1.2 s,
\* impact 0.4 s, settle 2.0 s; so the impact steps are issued 2.0 s and the
\* ambient session is started 4.4 s after the timeline starts.
C17_PhasesLastNominalDuration ==
  LET sl == StepLog
      Of(p) == {k \in 1..Len(sl) : PhaseOfStep[sl[k].who] = p}
      First(p) == sl[CHOOSE k \in Of(p) : \A j \in Of(p) : k <= j].t
  IN  /\ \A p \in 2..Len(PhaseOrder) :
           Of(p) # {} =>
             /\ Of(p - 1) # {}
             /\ First(p) - First(p - 1) = PHASE_DURATIONS[PhaseOrder[p - 1]]
      /\ \A k \in 1..Len(sl) :
           /\ sl[k].who = "flashFull" => sl[k].t - First(1) = 2000
           /\ sl[k].who = "ambient" => sl[k].t - First(1) = 4400

\* The timeline steps issued in this step of the machine.
StepsIssuedNow == {log'[k].who : k \in {j \in (Len(log) + 1)..Len(log') : log'[j].ev = "step"}}

\* The calls of flashLightning with the full level so far.
FullFlashCalls == Len(SelectSeq(log, LAMBDA r : r.ev = "call" /\ r.who = "full"))

\* C18: a run calls the full flash once, and the tick that calls it also
\* issues the slash, the burst, the 500 ms page shake, the 200 ms title glitch
\* and the start of the title's reveal: all at the same instant, none of them
\* complete yet, whatever order they complete in afterwards.
C18_ImpactFanOut ==
  [][ /\ FullFlashCalls' <= 1
      /\ FullFlashCalls' > FullFlashCalls => "flashFull" \in StepsIssuedNow
      /\ pc' = "resolved" => FullFlashCalls' = 1
      /\ (StepsIssuedNow \cap {"flashFull", "slash", "burst", "shake", "glitch200",
                               "titleReveal"} # {}) =>
           /\ {"flashFull", "slash", "burst", "shake", "glitch200", "titleReveal"}
                \subseteq StepsIssuedNow
           /\ FullFlashCalls' = FullFlashCalls + 1
           /\ ~reducedMotion =>
                \E e \in effects' \ effects : e.intensity = "full" /\ e.t0 = now
           /\ "shake" \in dom'.classes["body"]
           /\ \E tm \in timers' \ timers :
                tm.el = "body" /\ tm.cls = "shake" /\ tm.at = now + 500
           /\ "glitch" \in dom'.classes["title"]
           /\ \E tm \in timers' \ timers :
                tm.el = "title" /\ tm.cls = "glitch" /\ tm.at = now + 200
           /\ present["slashLine"] =>
                /\ "animate" \in dom'.classes["slashLine"]
                /\ \E tm \in timers' \ timers : tm.el = "slashLine" /\ tm.at > now
           /\ present["burst"] =>
                /\ "burst-animate" \in dom'.classes["burst"]
                /\ \E tm \in timers' \ timers : tm.el = "burst" /\ tm.at > now
           /\ dom.opacity["title"] = 0 /\ dom'.opacity["title"] = Mid ]_vars

\* The impact tick has run on the complete page: flash, shake, glitch, slash
\* and burst are all in progress and the title is mid-reveal.
C18_Witness ==
  /\ \E e \in effects : e.intensity = "full" /\ e.t0 = now
  /\ "shake" \in dom.classes["body"] /\ "glitch" \in dom.classes["title"]
  /\ "animate" \in dom.classes["slashLine"] /\ "burst-animate" \in dom.classes["burst"]
  /\ dom.opacity["title"] = Mid
  /\ \E k \in 1..Len(StepLog) : StepLog[k].who = "titleReveal" /\ StepLog[k].t = now

\* The recurring glitch pulses (80 ms) the title has received so far.
RecurringGlitches == Len(SelectSeq(log, LAMBDA r : r.ev = "glitch" /\ r.t0 = 80))

\* C19: a stop after the ambient phase has started cancels the 5-second glitch
\* interval with the session: the interval is no longer pending after the
\* call, and from then on no tick of it fires and the title gets no further
\* recurring glitch pulse.
C19_StopCancelsGlitchInterval ==
  [][ /\ (stops' = stops + 1 /\ cleanup.ambientCleanup = "set") =>
           /\ \E tm \in timers : tm.fn = "glitchInterval" /\ tm.id = cleanup.glitchInterval
           /\ \A tm \in timers' : tm.fn # "glitchInterval"
           /\ cleanup'.ambientCleanup = "null"
      /\ (session.created > 0 /\ cleanup.ambientCleanup = "null") =>
           /\ \A tm \in timers' : tm.fn # "glitchInterval"
           /\ RecurringGlitches' = RecurringGlitches
           /\ cleanup'.ambientCleanup = "null" ]_vars

\* The session was stopped after the interval had pulsed, and the time of the
\* next tick has passed.
C19_Witness ==
  /\ session.created = 1 /\ cleanup.ambientCleanup = "null"
  /\ RecurringGlitches = 1
  /\ now >= 4100 + 2 * GLITCH_PERIOD
  /\ \A tm \in timers : tm.fn # "glitchInterval"

\* C20: accelerateParticles and resetParticles leave the set of live
\* particles as it is, and once the settle phase has reset, every live
\* particle moves at the velocity the engine gave it and the target number is
\* the configured one, whatever particles the engine created or destroyed
\* before, between and after the two calls.
C20_BaselineAfterReset ==
  [][ /\ Len(log') > Len(log) =>
           DOMAIN particles'.vel = DOMAIN particles.vel /\ particles'.born = particles.born
      /\ Issued("reset")' =>
           /\ \A i \in DOMAIN particles'.vel : particles'.vel[i] = BaseVel(i)
           /\ particles'.handle => particles'.number = FloatOf(PARTICLE_NUMBER) ]_vars

====
